---- MODULE Spec2Model ----
(***************************************************************************)
(* Model of the AI file indexer (src/indexer/main.py): the directory walk  *)
(* of main(), the dedup gate, analyze_content, save_to_db on the FILE      *)
(* table and the IndexSession counters persisted in INDEX_LOG.             *)
(*                                                                         *)
(* Python strings that the code takes apart (file names, hashes) are       *)
(* sequences of one-character strings.  Optional values (None / NULL) are  *)
(* the record None, present values are Some(v).                            *)
(***************************************************************************)
EXTENDS Integers, Sequences, FiniteSets, TLC

(* ------------------------------ bounds --------------------------------- *)

\* number of directory entries the walk yields
NumFiles == 4
\* number of pipeline invocations over the same database
MaxRuns == 2
\* number of indexed files whose blob is gone from the output directory at once
MaxMissing == 1
\* length of the response texts the parser is run on
MaxTextLen == 5

(* --------------------------- optional values --------------------------- *)

None == [some |-> FALSE]
Some(v) == [some |-> TRUE, val |-> v]

(* ------------------------- the input directory ------------------------- *)

\* Two content digests (hex strings, shortened).
HashA == <<"a", "1", "a", "1", "a", "1", "a", "1">>
HashB == <<"b", "2", "b", "2", "b", "2", "b", "2">>

\* The entries os.walk yields, in walk order; the pattern repeats every
\* four entries:
\*   1  a.txt        content A
\*   2  a.PNG        content B (same stem as entry 1)
\*   3  .h           a dot-file
\*   4  .git/c       no extension, content A again, inside a dot-directory
FileAt(i) ==
  LET k == ((i - 1) % 4) + 1 IN
  CASE k = 1 -> [name |-> <<"a", ".", "t", "x", "t">>, hash |-> HashA, inDotDir |-> FALSE]
    [] k = 2 -> [name |-> <<"a", ".", "P", "N", "G">>, hash |-> HashB, inDotDir |-> FALSE]
    [] k = 3 -> [name |-> <<".", "h">>, hash |-> HashB, inDotDir |-> FALSE]
    [] OTHER -> [name |-> <<"c">>, hash |-> HashA, inDotDir |-> TRUE]

Files == 1..NumFiles

(* --------------------------- string helpers ---------------------------- *)

\* str.startswith('.')
StartsWithDot(s) == Len(s) > 0 /\ s[1] = "."

\* index of the last '.' of s, 0 when there is none
RECURSIVE LastDot(_, _)
LastDot(s, i) == IF i = 0 THEN 0 ELSE IF s[i] = "." THEN i ELSE LastDot(s, i - 1)

\* s consists of dots only (also true of the empty string)
AllDots(s) == \A i \in 1..Len(s) : s[i] = "."

\* os.path.splitext: (root, ext); the extension starts at the last dot,
\* unless only dots precede it
SplitExt(s) ==
  LET d == LastDot(s, Len(s)) IN
  IF d = 0 \/ AllDots(SubSeq(s, 1, d - 1)) THEN <<s, <<>>>>
  ELSE <<SubSeq(s, 1, d - 1), SubSeq(s, d, Len(s))>>

\* str.lower(), over the letters that occur in the names used here
LowerChar(c) ==
  CASE c = "P" -> "p" [] c = "N" -> "n" [] c = "G" -> "g"
    [] c = "T" -> "t" [] c = "X" -> "x" [] OTHER -> c

Lower(s) == [i \in 1..Len(s) |-> LowerChar(s[i])]

\* str.strip()
RECURSIVE Strip(_)
Strip(s) ==
  IF s = <<>> THEN s
  ELSE IF s[1] = " " THEN Strip(Tail(s))
  ELSE IF s[Len(s)] = " " THEN Strip(SubSeq(s, 1, Len(s) - 1))
  ELSE s

ALLOWED_TEXT_EXTENSIONS == {<<".", "t", "x", "t">>, <<".", "m", "d">>, <<".", "p", "y">>}
ALLOWED_IMAGE_EXTENSIONS == {<<".", "j", "p", "g">>, <<".", "p", "n", "g">>}

(* ----------------------------- the database ----------------------------- *)

\* CREATE TABLE FILE: FileHash is the PRIMARY KEY, FileName is UNIQUE NOT
\* NULL.  The table is the set of its rows.
FileRow(data) ==
  [FileHash |-> data.FileHash,
   FileName |-> data.FileName,
   FileType |-> data.FileType,
   Description |-> data.Description,
   Embedding |-> data.Embedding]

\* the test `is not None` in the place of truthiness
TruthyNotNone(o) == o.some

\* a Python value is truthy: not None and not empty
Truthy(o) == o.some /\ o.val # <<>>

\* json.dumps of a list or of a dict (its members, in insertion order)
JsonDumps(kind, members) == [json |-> kind, members |-> members]

\* the columns declared NOT NULL have no default value, so that a NULL in
\* one of them aborts the statement even under OR REPLACE
NotNullViolated(data) == ~data.FileName.some \/ ~data.FileType.some

\* sqlite3.IntegrityError out of save_to_db
SaveRaisesIntegrityError(table, data) == NotNullViolated(data)

\* save_to_db: INSERT OR REPLACE deletes every row that conflicts with the
\* new one on the primary key or on the UNIQUE FileName, then inserts it
SaveToDb(table, data) ==
  LET row == FileRow([data EXCEPT
                 !.FileName = data.FileName.val,
                 !.FileType = data.FileType.val,
                 !.Embedding = IF Truthy(data.Embedding)
                               THEN Some(JsonDumps("array", data.Embedding.val))
                               ELSE None])
  IN {r \in table : r.FileHash # row.FileHash /\ r.FileName # row.FileName} \cup {row}

\* check_if_indexed answering as it does when the query raises
CheckIfIndexedLookupFails(table, file_hash) == FALSE

\* check_if_indexed: SELECT 1 FROM FILE WHERE FileHash = ?
CheckIfIndexed(table, file_hash) == \E r \in table : r.FileHash = file_hash

(* ------------------------------ IndexSession --------------------------- *)

\* dict.get(k, default) and d[k] = v on a dict kept as the sequence of its
\* <<key, value>> items in insertion order
DictHas(d, k) == \E i \in 1..Len(d) : d[i][1] = k

DictGet(d, k, default) ==
  IF DictHas(d, k) THEN d[CHOOSE i \in 1..Len(d) : d[i][1] = k][2] ELSE default

DictSet(d, k, v) ==
  IF DictHas(d, k) THEN [i \in 1..Len(d) |-> IF d[i][1] = k THEN <<k, v>> ELSE d[i]]
  ELSE Append(d, <<k, v>>)

\* IndexSession.__init__ without the INSERT
NewSession(id) ==
  [total |-> 0, success |-> 0, failed |-> 0, skipped |-> 0,
   type_stats |-> <<>>, session_id |-> id]

\* _create_session: INSERT INTO INDEX_LOG (StartTime); the counters take
\* their DEFAULT 0, EndTime and TypeStats are NULL
NewLogRow ==
  [EndTime |-> None, TotalFiles |-> 0, SuccessCount |-> 0, FailedCount |-> 0,
   SkippedCount |-> 0, TypeStats |-> None]

\* IndexSession.update: UPDATE INDEX_LOG SET ... WHERE id = session_id
Update(s, log) ==
  [log EXCEPT ![s.session_id] =
     [@ EXCEPT !.TotalFiles = s.total, !.SuccessCount = s.success,
               !.FailedCount = s.failed, !.SkippedCount = s.skipped,
               !.TypeStats = Some(JsonDumps("object", s.type_stats))]]

\* IndexSession.finish: the same UPDATE, with EndTime
FinishLog(s, log) ==
  [log EXCEPT ![s.session_id] =
     [@ EXCEPT !.EndTime = Some("end"),
               !.TotalFiles = s.total, !.SuccessCount = s.success,
               !.FailedCount = s.failed, !.SkippedCount = s.skipped,
               !.TypeStats = Some(JsonDumps("object", s.type_stats))]]

\* The rows of the sessions that ended, as a later process meets them: every
\* statement on INDEX_LOG is an INSERT of a new row or an UPDATE ... WHERE
\* id = its own session id, so of an earlier row only the EndTime column
\* is carried along.
ClosedRows(log) == [i \in 1..Len(log) |-> [EndTime |-> log[i].EndTime]]

\* self.type_stats[file_type] = self.type_stats.get(file_type, 0) + 1
CountType(s, file_type) ==
  DictSet(s.type_stats, file_type, DictGet(s.type_stats, file_type, 0) + 1)

\* The three log_* methods, on the tracker tr = [s |-> the session object,
\* log |-> the INDEX_LOG table].
LogSuccess(tr, file_type) ==
  LET s == [tr.s EXCEPT !.total = @ + 1, !.success = @ + 1,
                        !.type_stats = CountType(tr.s, file_type)]
  IN [s |-> s, log |-> Update(s, tr.log)]

\* log_fail without its self.update()
LogFailNoUpdate(tr, file_type) ==
  LET s == [tr.s EXCEPT !.total = @ + 1, !.failed = @ + 1,
                        !.type_stats = CountType(tr.s, file_type)]
  IN [s |-> s, log |-> tr.log]

LogFail(tr, file_type) ==
  LET s == [tr.s EXCEPT !.total = @ + 1, !.failed = @ + 1,
                        !.type_stats = CountType(tr.s, file_type)]
  IN [s |-> s, log |-> Update(s, tr.log)]

\* log_skip without `self.total += 1`
LogSkipNoTotal(tr, file_type) ==
  LET s == [tr.s EXCEPT !.skipped = @ + 1,
                        !.type_stats = CountType(tr.s, file_type)]
  IN [s |-> s, log |-> tr.log]

\* log_skip leaves the row alone: its self.update() is commented out
LogSkip(tr, file_type) ==
  LET s == [tr.s EXCEPT !.total = @ + 1, !.skipped = @ + 1,
                        !.type_stats = CountType(tr.s, file_type)]
  IN [s |-> s, log |-> tr.log]

(* ---------------------------- analyze_content -------------------------- *)

\* The texts a completion call can return, as JSON documents:
\* the empty string, text that is not JSON, a JSON array, a JSON object
\* (its members, as <<key, value>> items).
EmptyText == [json |-> "empty", members |-> <<>>]
InvalidJsonText == [json |-> "invalid", members |-> <<>>]
ArrayText == [json |-> "array", members |-> <<>>]
ObjectText(members) == [json |-> "object", members |-> members]

\* `if response_json:` on an optional text
TextTruthy(o) == o.some /\ o.val.json # "empty"

\* json.loads: raises JSONDecodeError on text that is not JSON
JsonLoads(text) ==
  IF text.json \in {"invalid", "empty"} THEN [ok |-> FALSE, value |-> text]
  ELSE [ok |-> TRUE, value |-> text]

\* result.get(key) on a parsed object
Get(result, key) ==
  IF DictHas(result.members, key) THEN Some(DictGet(result.members, key, 0)) ELSE None

FailureMarker == "Analysis failed"

\* the sentinel with a marker the failure test of main() does not look for
SentinelResultOtherMarker ==
  ObjectText(<<<<"description", "Analysis Failed">>, <<"standardized_filename", <<>>>>>>)

\* the result analyze_content starts from and keeps when parsing fails
SentinelResult ==
  ObjectText(<<<<"description", FailureMarker>>, <<"standardized_filename", <<>>>>>>)

Placeholder == <<"[Binary or unreadable file content]">>

\* Step 1 without the placeholder: an empty content goes to the text model
AcquireContentNoPlaceholder(file_text, ext, env) ==
  LET useVision == ~Truthy(file_text) /\ ext \in ALLOWED_IMAGE_EXTENSIONS
      c1 == IF useVision THEN env.vision ELSE file_text
  IN [raised |-> useVision /\ ~env.imgOK,
      vision |-> useVision,
      content |-> IF Truthy(c1) THEN c1.val ELSE <<>>]

\* Step 1 of analyze_content: the content handed to the text model, and
\* whether the vision model was called.  encode_image reads the file and
\* raises when it cannot.
AcquireContent(file_text, ext, env) ==
  LET useVision == ~Truthy(file_text) /\ ext \in ALLOWED_IMAGE_EXTENSIONS
      c1 == IF useVision THEN env.vision ELSE file_text
  IN [raised |-> useVision /\ ~env.imgOK,
      vision |-> useVision,
      content |-> IF Truthy(c1) THEN c1.val ELSE Placeholder]

\* Step 2: the parsed response, or the sentinel
ParseResponse(response_json) ==
  IF TextTruthy(response_json)
  THEN LET parsed == JsonLoads(response_json.val)
       IN IF parsed.ok THEN parsed.value ELSE SentinelResult
  ELSE SentinelResult

\* analyze_content: returns (result, embedding), or raises.  result.get on a
\* parsed value that is not an object raises AttributeError; the local
\* embedding model raises where the remote client returns None.
\* `calls` lists the requests made, in order: the vision completion, the
\* text completion (each made once, chat_completion does not retry) and
\* the embedding, which Step 3 asks for whatever Step 2 came to.
AnalyzeContent(file_text, ext, env) ==
  LET step1 == AcquireContent(file_text, ext, env)
      result == ParseResponse(env.resp)
      calls2 == (IF step1.vision THEN <<"vision">> ELSE <<>>) \o <<"text">>
  IN IF step1.raised
     THEN [raised |-> TRUE, result |-> SentinelResult, embedding |-> None, calls |-> <<>>]
     ELSE IF result.json # "object"
     THEN [raised |-> TRUE, result |-> result, embedding |-> None, calls |-> calls2]
     ELSE IF env.embRaises
     THEN [raised |-> TRUE, result |-> result, embedding |-> None,
           calls |-> Append(calls2, "embed")]
     ELSE [raised |-> FALSE, result |-> result, embedding |-> env.emb,
           calls |-> Append(calls2, "embed")]

\* the completion calls of one analysis that came back as None
AbsentCalls(calls, env) ==
  {c \in {calls[i] : i \in 1..Len(calls)} :
     \/ c = "vision" /\ ~env.vision.some
     \/ c = "text" /\ ~env.resp.some}

(* --------------------------------- main -------------------------------- *)

\* file_hash[:6]
HashFragLen == 6
\* len(std_filename) > 3
MinStdLen == 3

BadChars == {"\\", "/", "*", "?", ":", "\"", "<", ">", "|"}

\* re.sub(r'[\\/*?:"<>|]', "", s)
Sanitize(s) == SelectSeq(s, LAMBDA c : c \notin BadChars)

\* the FileName main() takes from standardized_filename, None when the name
\* is left as it was
StandardizedName(std) ==
  IF ~(Truthy(std) /\ Len(std.val) > MinStdLen) THEN None
  ELSE LET clean == Sanitize(std.val)
           d == LastDot(clean, Len(clean))
           new_fname == IF d > 0 THEN Strip(SubSeq(clean, 1, d - 1)) ELSE Strip(clean)
       IN IF new_fname # <<>> THEN Some(new_fname) ELSE None

\* the failure test without its `not embedding`
AnalysisFailedByMarkerOnly(result, embedding) ==
  Get(result, "description") = Some(FailureMarker)

\* the failure test main() makes on what analyze_content returned
AnalysisFailed(result, embedding) ==
  ~Truthy(embedding) \/ Get(result, "description") = Some(FailureMarker)

\* ext[1:] if ext else "unknown", as passed to log_skip at the dedup gate
SkipTypeTag(ext) == IF ext # <<>> THEN Tail(ext) ELSE <<"u", "n", "k", "n", "o", "w", "n">>

\* ext[1:] if ext else "", meta['FileType']
FileTypeOf(ext) == IF ext # <<>> THEN Tail(ext) ELSE <<>>

\* f"{meta['FileName']}_{file_hash[:6]}"
RenameForUnique(name, file_hash) == name \o <<"_">> \o SubSeq(file_hash, 1, HashFragLen)

\* the save followed by the rename and the second save whatever the first did
SaveWithRetryAlways(table, meta, file_hash) ==
  LET meta2 == [meta EXCEPT !.FileName = Some(RenameForUnique(meta.FileName.val, file_hash))]
  IN [raised |-> FALSE, table |-> SaveToDb(SaveToDb(table, meta), meta2), saves |-> 2,
      meta |-> meta2]

\* The two save attempts of main(): save_to_db, and on IntegrityError the
\* rename and one more save_to_db, whose error is not caught.
SaveWithRetry(table, meta, file_hash) ==
  IF ~SaveRaisesIntegrityError(table, meta)
  THEN [raised |-> FALSE, table |-> SaveToDb(table, meta), saves |-> 1, meta |-> meta]
  ELSE LET meta2 == [meta EXCEPT !.FileName =
                        IF meta.FileName.some
                        THEN Some(RenameForUnique(meta.FileName.val, file_hash))
                        ELSE None]
       IN IF SaveRaisesIntegrityError(table, meta2)
          THEN [raised |-> TRUE, table |-> table, saves |-> 2, meta |-> meta2]
          ELSE [raised |-> FALSE, table |-> SaveToDb(table, meta2), saves |-> 2, meta |-> meta2]

\* shutil.copy2(file_path, dest_path): the blob appears under the name of
\* the hash, the source stays in the input tree
Copy2(src, out, e) == [src |-> src, out |-> out \cup {e.hash}]

\* the restore with shutil.move in the place of shutil.copy2
RestoreBlobByMove(src, out, e, copyOK) ==
  IF e.hash \in out THEN [src |-> src, out |-> out, restore |-> "present"]
  ELSE IF copyOK
  THEN [src |-> {i \in src : FileAt(i) # e}, out |-> out \cup {e.hash},
        restore |-> "copied"]
  ELSE [src |-> src, out |-> out, restore |-> "failed"]

\* the restore at the dedup gate: `if not os.path.exists(dest_path)` the
\* copy is tried and its error logged
RestoreBlob(src, out, e, copyOK) ==
  IF e.hash \in out THEN [src |-> src, out |-> out, restore |-> "present"]
  ELSE IF copyOK
  THEN [src |-> Copy2(src, out, e).src, out |-> Copy2(src, out, e).out,
        restore |-> "copied"]
  ELSE [src |-> src, out |-> out, restore |-> "failed"]

\* the failure branch with the copy of the blob made before the failure test
FailedAfterCopy(seen, tr, file_type, e) ==
  [seen EXCEPT !.tr = LogFail(tr, file_type), !.outcomes = <<"fail">>,
               !.out = Copy2(seen.src, seen.out, e).out]

\* the failure branch of main(): log_fail and continue
Failed(seen, tr, file_type, e) ==
  [seen EXCEPT !.tr = LogFail(tr, file_type), !.outcomes = <<"fail">>]

\* What one pass of the loop body of main() does for the non-hidden entry e
\* in the environment env, from the table, the output directory out and the
\* tracker tr.  `raised` tells that an exception left the loop.
LoopBody(e, force, env, table, out, tr, src) ==
  LET ext == Lower(SplitExt(e.name)[2])
      stem == SplitExt(e.name)[1]
      file_hash == e.hash
      base == [table |-> table, out |-> out, tr |-> tr, src |-> src, raised |-> FALSE,
               outcomes |-> <<>>, std |-> None, name |-> None, saves |-> 0,
               analysed |-> FALSE, embOK |-> FALSE, metaOK |-> FALSE,
               calls |-> <<>>, absent |-> {}, restore |-> "none"]
      restored == RestoreBlob(src, out, e, env.copyOK)
  IN
  IF ~env.statOK THEN [base EXCEPT !.raised = TRUE]
  ELSE IF ~force /\ CheckIfIndexed(table, file_hash)
  THEN [base EXCEPT !.tr = LogSkip(tr, SkipTypeTag(ext)),
                    !.outcomes = <<"skip">>,
                    !.out = restored.out,
                    !.src = restored.src,
                    !.restore = restored.restore]
  ELSE
  LET meta == [FileHash |-> file_hash, FileName |-> Some(stem),
               FileType |-> Some(FileTypeOf(ext)),
               Description |-> Some(""), Embedding |-> Some(<<>>)]
  IN
  IF ~force /\ CheckIfIndexed(table, file_hash)
  THEN [base EXCEPT !.tr = LogSkip(tr, meta.FileType.val), !.outcomes = <<"skip">>]
  ELSE
  LET a == AnalyzeContent(env.text, ext, env)
      seen == [base EXCEPT !.analysed = TRUE,
                           !.embOK = Truthy(a.embedding),
                           !.metaOK = ~a.raised /\ Get(a.result, "description") # Some(FailureMarker),
                           !.calls = <<"extract">> \o a.calls,
                           !.absent = AbsentCalls(a.calls, env)]
  IN
  IF a.raised THEN [base EXCEPT !.raised = TRUE]
  ELSE IF AnalysisFailed(a.result, a.embedding)
  THEN Failed(seen, tr, meta.FileType.val, e)
  ELSE
  LET tr1 == LogSuccess(tr, meta.FileType.val)
      std == StandardizedName(Get(a.result, "standardized_filename"))
      meta1 == [meta EXCEPT !.Description = Get(a.result, "description"),
                            !.Embedding = a.embedding,
                            !.FileName = IF std.some THEN std ELSE @]
      counted == [seen EXCEPT !.tr = tr1, !.outcomes = <<"success">>, !.std = std,
                              !.name = meta1.FileName]
  IN
  IF file_hash \notin out /\ ~env.copyOK THEN [counted EXCEPT !.raised = TRUE]
  ELSE
  LET saved == SaveWithRetry(table, meta1, file_hash)
  IN [counted EXCEPT !.out = Copy2(src, out, e).out,
                     !.src = Copy2(src, out, e).src,
                     !.table = saved.table,
                     !.saves = saved.saves,
                     !.raised = saved.raised]

(* ------------------------- what the world answers ----------------------- *)

\* extract_text_from_file: None for a type it does not read or on an error,
\* else the text read, which may be empty
ExtractOutcomes(ext) ==
  IF ext \in ALLOWED_TEXT_EXTENSIONS THEN {None, Some(<<>>), Some(<<"t">>)} ELSE {None}

\* descriptions and standardized file names the text model may answer with
Descriptions == {"d1", FailureMarker}
StdFilenames == {<<"d", "/", "o", "c", "1", ".", "p">>, <<"a", "b">>}

ResponseObjects ==
  {ObjectText(<<<<"description", d>>, <<"standardized_filename", n>>>>) :
       d \in Descriptions, n \in StdFilenames}
  \cup {ObjectText(<<<<"standardized_filename", n>>>>) : n \in {<<"d", "/", "o", "c", "1", ".", "p">>}}

\* AIClient.chat_completion for the text model: None on any error
Responses ==
  {None, Some(EmptyText), Some(InvalidJsonText), Some(ArrayText)}
  \cup {Some(o) : o \in ResponseObjects}

\* AIClient.chat_completion for the vision model
VisionResponses == {None, Some(<<"v">>)}

\* get_embedding: the local model returns a vector or raises; the remote
\* client returns the vector of the reply (possibly empty) or None
EmbeddingOutcomes(local) ==
  IF local
  THEN {[emb |-> Some(<<1>>), embRaises |-> FALSE], [emb |-> None, embRaises |-> TRUE]}
  ELSE {[emb |-> m, embRaises |-> FALSE] : m \in {None, Some(<<>>), Some(<<1>>)}}

\* the environment in which os.stat or the read for the hash fails; its
\* other answers are never asked for
StatFails ==
  [statOK |-> FALSE, text |-> None, imgOK |-> TRUE, vision |-> None, resp |-> None,
   emb |-> None, embRaises |-> FALSE, copyOK |-> TRUE]

StatWorks == [StatFails EXCEPT !.statOK = TRUE]

\* shutil.copy2 runs only when the blob is missing
CopyOutcomes(file_hash, out) == IF file_hash \in out THEN {TRUE} ELSE BOOLEAN

\* The environments entry e can meet, each a record of what the file
\* system and the three services answer; an answer the code does not get
\* to ask for is left at its value in StatWorks.
Envs(e, cmd, table, out) ==
  LET ext == Lower(SplitExt(e.name)[2])
      \* Step 1 environments
      step1 == UNION {
        IF ~Truthy(t) /\ ext \in ALLOWED_IMAGE_EXTENSIONS
        THEN {[StatWorks EXCEPT !.text = t, !.imgOK = FALSE]}
             \cup {[StatWorks EXCEPT !.text = t, !.vision = v] : v \in VisionResponses}
        ELSE {[StatWorks EXCEPT !.text = t]}
        : t \in ExtractOutcomes(ext)}
      \* Step 2 and Step 3 environments
      step23(env1) ==
        IF ~env1.imgOK THEN {env1}
        ELSE UNION {
          IF ParseResponse(r).json # "object" THEN {[env1 EXCEPT !.resp = r]}
          ELSE {[env1 EXCEPT !.resp = r, !.emb = m.emb, !.embRaises = m.embRaises] :
                   m \in EmbeddingOutcomes(cmd.embedding_local)}
          : r \in Responses}
      \* the copy of the blob
      copy(env3) ==
        LET a == AnalyzeContent(env3.text, ext, env3) IN
        IF a.raised \/ AnalysisFailed(a.result, a.embedding) THEN {env3}
        ELSE {[env3 EXCEPT !.copyOK = c] : c \in CopyOutcomes(e.hash, out)}
  IN
  {StatFails} \cup
  IF ~cmd.force /\ CheckIfIndexed(table, e.hash)
  THEN {[StatWorks EXCEPT !.copyOK = c] : c \in CopyOutcomes(e.hash, out)}
  ELSE UNION {UNION {copy(env3) : env3 \in step23(env1)} : env1 \in step1}

(* ------------------- the text response, by characters ------------------ *)

\* The characters of a response: the backtick, the braces of an object and x
\* for any character of its members; " " is white space.
Tick == "tick"
TextChars == {Tick, "{", "}", "x"}
Texts == UNION {[1..n -> TextChars] : n \in 0..MaxTextLen}

\* a text json.loads reads as an object: braces around its members
IsJsonObjectText(t) ==
  /\ Len(t) >= 2 /\ t[1] = "{" /\ t[Len(t)] = "}"
  /\ \A i \in 2..(Len(t) - 1) : t[i] \notin {"{", "}"}

\* json.loads(cleaned_json): white space around the value is allowed
JsonLoadsText(t) ==
  LET c == Strip(t)
  IN IF IsJsonObjectText(c)
     THEN [ok |-> TRUE, value |-> ObjectText(<<<<"members", SubSeq(c, 2, Len(c) - 1)>>>>)]
     ELSE [ok |-> FALSE]

\* the fence, three backticks, at position i of s
IsFence(s, i) ==
  i >= 1 /\ i + 2 <= Len(s) /\ s[i] = Tick /\ s[i + 1] = Tick /\ s[i + 2] = Tick

HasFence(s) == \E i \in 1..Len(s) : IsFence(s, i)

\* "json" at position i of s
IsJsonTag(s, i) == i + 3 <= Len(s) /\ SubSeq(s, i, i + 3) = <<"j", "s", "o", "n">>

Least(S) == CHOOSE k \in S : \A m \in S : k <= m

\* the group of the pattern fence, (?:json)?, (.*?), fence matched from
\* position i: the tag is
\* taken when a closing fence follows it, the group ends at the first
\* closing fence
MatchAt(s, i) ==
  LET closing(from) == {k \in from..Len(s) : IsFence(s, k)}
  IN IF ~IsFence(s, i) THEN None
     ELSE IF IsJsonTag(s, i + 3) /\ closing(i + 7) # {}
     THEN Some(SubSeq(s, i + 7, Least(closing(i + 7)) - 1))
     ELSE IF closing(i + 3) # {}
     THEN Some(SubSeq(s, i + 3, Least(closing(i + 3)) - 1))
     ELSE None

\* re.search(pattern, s, re.DOTALL): the leftmost match
RegexSearch(s) ==
  LET starts == {i \in 1..Len(s) : MatchAt(s, i).some}
  IN IF starts = {} THEN None ELSE MatchAt(s, Least(starts))

\* Step 2 of analyze_content on the characters of the response
ParseResponseText(response_json) ==
  IF response_json = <<>> THEN SentinelResult
  ELSE LET match == RegexSearch(response_json)
           cleaned_json == IF HasFence(response_json) /\ match.some
                           THEN Strip(match.val) ELSE response_json
           parsed == JsonLoadsText(cleaned_json)
       IN IF parsed.ok THEN parsed.value ELSE SentinelResult

\* a response that wraps the text J in a fence, without and with the tag
Fenced(J) == <<Tick, Tick, Tick, " ">> \o J \o <<" ", Tick, Tick, Tick>>
FencedJson(J) == <<Tick, Tick, Tick, "j", "s", "o", "n", " ">> \o J \o <<" ", Tick, Tick, Tick>>

(* ------------------------------- the state ------------------------------ *)

VARIABLES
  FILE,          \* the FILE table
  INDEX_LOG,     \* the INDEX_LOG table, row i has id i
  output,        \* the names (hashes) of the files in the output directory
  inputTree,     \* the entries present in the input directory
  session,       \* the IndexSession object of the running process
  pc,            \* where main() is
  idx,           \* the next entry of the walk
  args,          \* the command line of the current run
  prevPlain,     \* the run before the current one was not forced, its walk ended normally,
                 \* it counted every non-hidden entry and recorded no failure
  lastStep,      \* what the last pass of the loop body did and met
  indexedAtStart, \* the hashes the FILE table held when the current run began
  parse,         \* a response text and what the parser made of it, bare and fenced
  stepA          \* an input of analyze_content and what Step 1 made of it

vars == <<FILE, INDEX_LOG, output, inputTree, session, pc, idx, args, prevPlain, lastStep, indexedAtStart,
          parse, stepA>>

NoStep ==
  [file |-> 0, outcomes |-> <<>>, std |-> None, name |-> None, analysed |-> FALSE,
   embOK |-> FALSE, metaOK |-> FALSE, saves |-> 0,
   calls |-> <<>>, absent |-> {}, restore |-> "none"]

NoArgs == [force |-> FALSE, embedding_local |-> FALSE]
Ended == pc \in {"done", "failed", "exited"}
Hashes(table) == {r.FileHash : r \in table}

NoParse == [J |-> <<>>, plain |-> None, fenced |-> None, tagged |-> None]

Pristine ==
  /\ FILE = {}
  /\ INDEX_LOG = <<>>
  /\ output = {}
  /\ inputTree = Files
  /\ session = NewSession(0)
  /\ pc = "idle"
  /\ idx = 1
  /\ args = NoArgs
  /\ prevPlain = FALSE
  /\ lastStep = NoStep
  /\ indexedAtStart = {}

NoStepA ==
  [ext |-> <<>>, env |-> StatWorks, done |-> FALSE, raised |-> FALSE, content |-> None,
   calls |-> <<>>]

Init == Pristine /\ parse = NoParse /\ stepA = NoStepA

\* main() up to the creation of the session: init_db keeps the tables of an
\* existing database, IndexSession() inserts the row of the run
StartRun ==
  /\ pc \in {"idle", "done", "failed", "exited"}
  /\ Len(INDEX_LOG) < MaxRuns
  /\ \E force \in BOOLEAN, local \in BOOLEAN :
       args' = [force |-> force, embedding_local |-> local]
  /\ prevPlain' = /\ pc = "done" /\ ~args.force
                   /\ INDEX_LOG[Len(INDEX_LOG)].EndTime.some
                   /\ INDEX_LOG[Len(INDEX_LOG)].TotalFiles =
                        Cardinality({i \in Files : ~StartsWithDot(FileAt(i).name)})
                   /\ INDEX_LOG[Len(INDEX_LOG)].FailedCount = 0
  /\ INDEX_LOG' = Append(ClosedRows(INDEX_LOG), NewLogRow)
  /\ session' = NewSession(Len(INDEX_LOG) + 1)
  /\ pc' = "init"
  /\ idx' = 1
  /\ lastStep' = NoStep
  /\ indexedAtStart' = Hashes(FILE)
  /\ UNCHANGED <<FILE, output, inputTree, parse, stepA>>

\* the clients: with --embedding-local a failed import ends the process by
\* sys.exit(1), before the try block whose finally calls finish()
InitClients ==
  /\ pc = "init"
  /\ \E importOK \in BOOLEAN :
       pc' = IF args.embedding_local /\ ~importOK THEN "exited" ELSE "walk"
  /\ UNCHANGED <<FILE, INDEX_LOG, output, inputTree, session, idx, args, prevPlain, lastStep, indexedAtStart, parse, stepA>>

\* `if file_name.startswith('.'): continue`
SkipHidden ==
  /\ pc = "walk" /\ idx <= NumFiles /\ idx \in inputTree
  /\ StartsWithDot(FileAt(idx).name)
  /\ idx' = idx + 1
  /\ UNCHANGED <<FILE, INDEX_LOG, output, inputTree, session, pc, args, prevPlain, lastStep, indexedAtStart, parse, stepA>>

\* one pass of the loop body; an exception leaves the loop and the finally
\* block calls finish()
ProcessFile ==
  /\ pc = "walk" /\ idx <= NumFiles /\ idx \in inputTree
  /\ ~StartsWithDot(FileAt(idx).name)
  /\ \E env \in Envs(FileAt(idx), args, FILE, output) :
     \E r \in {LoopBody(FileAt(idx), args.force, env, FILE, output,
                         [s |-> session, log |-> INDEX_LOG], inputTree)} :
          /\ FILE' = r.table
          /\ output' = r.out
          /\ inputTree' = r.src
          /\ session' = r.tr.s
          /\ INDEX_LOG' = IF r.raised THEN FinishLog(r.tr.s, r.tr.log) ELSE r.tr.log
          /\ pc' = IF r.raised THEN "failed" ELSE "walk"
          /\ idx' = IF r.raised THEN idx ELSE idx + 1
          /\ lastStep' = [file |-> idx, outcomes |-> r.outcomes, std |-> r.std,
                          name |-> r.name,
                          analysed |-> r.analysed, embOK |-> r.embOK,
                          metaOK |-> r.metaOK, saves |-> r.saves,
                          calls |-> r.calls, absent |-> r.absent,
                          restore |-> r.restore]
  /\ UNCHANGED <<args, prevPlain, indexedAtStart, parse, stepA>>

\* the walk is over: finally: session.finish()
Finish ==
  /\ pc = "walk" /\ idx > NumFiles
  /\ INDEX_LOG' = FinishLog(session, INDEX_LOG)
  /\ pc' = "done"
  /\ UNCHANGED <<FILE, output, inputTree, session, idx, args, prevPlain, lastStep, indexedAtStart, parse, stepA>>

\* between two runs a file of the output directory is removed by its owner
\* (the case the restore at the dedup gate is written for)
LoseBlob ==
  /\ pc \in {"done", "failed", "exited"}
  /\ Cardinality(Hashes(FILE) \ output) < MaxMissing
  /\ \E h \in output \cap Hashes(FILE) : output' = output \ {h}
  /\ UNCHANGED <<FILE, INDEX_LOG, inputTree, session, pc, idx, args, prevPlain, lastStep,
                 indexedAtStart, parse, stepA>>

Next == StartRun \/ InitClients \/ SkipHidden \/ ProcessFile \/ Finish \/ LoseBlob

Spec == Init /\ [][Next]_vars

(* ---------------------- the parser on its own inputs -------------------- *)

\* the parser of analyze_content applied to a text, to the text in a fence
\* and to the text in a fence tagged json
InitFence ==
  Pristine /\ parse \in {[NoParse EXCEPT !.J = t] : t \in Texts} /\ stepA = NoStepA

FenceFrame ==
  UNCHANGED <<FILE, INDEX_LOG, output, inputTree, session, pc, idx, args, prevPlain,
              lastStep, indexedAtStart, stepA>>

ParsePlain ==
  /\ ~parse.plain.some
  /\ parse' = [parse EXCEPT !.plain = Some(ParseResponseText(parse.J))]
  /\ FenceFrame

ParseFenced ==
  /\ ~parse.fenced.some
  /\ parse' = [parse EXCEPT !.fenced = Some(ParseResponseText(Fenced(parse.J)))]
  /\ FenceFrame

ParseTagged ==
  /\ ~parse.tagged.some
  /\ parse' = [parse EXCEPT !.tagged = Some(ParseResponseText(FencedJson(parse.J)))]
  /\ FenceFrame

NextFence == ParsePlain \/ ParseFenced \/ ParseTagged

SpecFence == InitFence /\ [][NextFence]_vars

(* ----------------- analyze_content on its own inputs -------------------- *)

\* the lowercased extensions analyze_content is called with
StepAExts == ALLOWED_TEXT_EXTENSIONS \cup ALLOWED_IMAGE_EXTENSIONS \cup {<<>>}

\* what the vision model may answer: nothing, an empty text, a text
Transcriptions == {None, Some(<<>>), Some(<<"v">>)}

\* the calls of analyze_content: the text main() extracted for the type, the
\* answers of the file system, of the two models and of the embedding
StepAInputs ==
  UNION {{[NoStepA EXCEPT !.ext = x,
                          !.env = [StatWorks EXCEPT !.text = t, !.imgOK = ok, !.vision = v,
                                                    !.resp = r, !.emb = Some(<<1>>)]] :
             t \in ExtractOutcomes(x), ok \in BOOLEAN, v \in Transcriptions,
             r \in Responses}
         : x \in StepAExts}

InitContent == Pristine /\ parse = NoParse /\ stepA \in StepAInputs

Analyze ==
  /\ ~stepA.done
  /\ LET step1 == AcquireContent(stepA.env.text, stepA.ext, stepA.env)
         a == AnalyzeContent(stepA.env.text, stepA.ext, stepA.env)
     IN stepA' = [stepA EXCEPT !.done = TRUE,
                               !.raised = a.raised,
                               !.content = IF step1.raised THEN None ELSE Some(step1.content),
                               !.calls = a.calls]
  /\ UNCHANGED <<FILE, INDEX_LOG, output, inputTree, session, pc, idx, args, prevPlain,
                 lastStep, indexedAtStart, parse>>

NextContent == Analyze

SpecContent == InitContent /\ [][NextContent]_vars

(* ------------------------------ properties ------------------------------ *)

\* the step just taken was a pass of the loop body over entry idx
Processed == pc = "walk" /\ lastStep'.file = idx

\* the hash of the entry the last pass of the loop body handled
LastHash == FileAt(lastStep.file).hash

NonHidden == {i \in Files : ~StartsWithDot(FileAt(i).name)}
TreeHashes == {FileAt(i).hash : i \in NonHidden}

\* the run before the current one was a non-force run that ended normally,
\* gave every non-hidden entry an outcome and recorded no failure
PreviousRunClean ==
  /\ Len(INDEX_LOG) >= 2
  /\ prevPlain
  /\ INDEX_LOG[Len(INDEX_LOG) - 1].EndTime.some

\* the sum of the counts of a serialized type_stats
RECURSIVE SumCounts(_)
SumCounts(items) == IF items = <<>> THEN 0 ELSE Head(items)[2] + SumCounts(Tail(items))

\* the INDEX_LOG row of the current run holds what the session object holds
PersistedEqualsMemory ==
  LET row == INDEX_LOG[session.session_id]
  IN /\ row.TotalFiles = session.total
     /\ row.SuccessCount = session.success
     /\ row.FailedCount = session.failed
     /\ row.SkippedCount = session.skipped
     /\ row.TypeStats = Some(JsonDumps("object", session.type_stats))

\* C1: when an entry is processed successfully under the display name the
\* text model gave it while the table holds that name in the row of another
\* content hash (the file that was given the same name before), both hashes
\* have a row afterwards, under distinct names, one of them the common name
\* with the first characters of its own hash appended.
C1_NameCollisionResolved ==
  [][(/\ Processed /\ pc' = "walk"
      /\ lastStep'.outcomes = <<"success">>
      /\ lastStep'.std.some)
     => \A r \in FILE :
          (r.FileName = lastStep'.std.val /\ r.FileHash # FileAt(idx).hash)
          => \E r1, r2 \in FILE' :
               /\ r1.FileHash = r.FileHash
               /\ r2.FileHash = FileAt(idx).hash
               /\ r1.FileName # r2.FileName
               /\ \/ r2.FileName = RenameForUnique(lastStep'.std.val, r2.FileHash)
                  \/ r1.FileName = RenameForUnique(lastStep'.std.val, r1.FileHash)]_vars

\* C2: a save whose FileName is held by the row of another hash reports the
\* conflict (main() then makes its second, renamed attempt) and that row is
\* in the table afterwards as it was.
C2_ConflictReportedNotOverwritten ==
  [][(Processed /\ lastStep'.saves > 0)
     => \A r \in FILE :
          (r.FileName = lastStep'.name.val /\ r.FileHash # FileAt(idx).hash)
          => (r \in FILE' /\ lastStep'.saves = 2)]_vars

\* C3: in a non-force run that follows a clean non-force run over the same
\* directory, every outcome recorded is a skip and the table holds no hash
\* it did not hold when the run began.
C3_SecondRunOnlySkips ==
  (PreviousRunClean /\ ~args.force /\ pc \in {"walk", "done", "failed"})
  => /\ lastStep.outcomes \in {<<>>, <<"skip">>}
     /\ Hashes(FILE) \subseteq indexedAtStart

\* C4 as stated: after an entry whose embedding step returned no vector was
\* handled, the table has no row keyed by its hash.
C4_NoRowForHash ==
  (lastStep.analysed /\ ~lastStep.embOK) => ~CheckIfIndexed(FILE, LastHash)

\* C4, amended: the pass of the loop body over an entry whose embedding step
\* returned no vector leaves the FILE table exactly as it was.
C4_NoRowWritten ==
  [][(Processed /\ lastStep'.analysed /\ ~lastStep'.embOK) => FILE' = FILE]_vars

\* a force run in which the embedding of an already indexed entry came back
\* absent although its metadata was valid
C4_Witness ==
  /\ args.force /\ lastStep.analysed /\ ~lastStep.embOK /\ lastStep.metaOK
  /\ lastStep.outcomes = <<"fail">>
  /\ CheckIfIndexed(FILE, LastHash)

\* C5: a run that got to the walk ends only after the walk has been through
\* every entry: no error of one entry ends it.
C5_WalkNeverCutShort ==
  pc \in {"done", "failed"} => idx > NumFiles

\* C6: a force run over a directory whose hashes were all indexed ends with
\* as many rows as it began with, one per hash.
C6_ForceKeepsRowCount ==
  (pc = "done" /\ args.force /\ TreeHashes \subseteq indexedAtStart)
  => /\ Cardinality(FILE) = Cardinality(indexedAtStart)
     /\ \A r1, r2 \in FILE : r1.FileHash = r2.FileHash => r1 = r2

\* C7: the INDEX_LOG row of a run, once finish() wrote it, has TotalFiles equal to
\* SuccessCount + FailedCount + SkippedCount and to the sum of the counts
\* in its TypeStats.
C7_RunAccounting ==
  \A i \in {Len(INDEX_LOG)} \ {0} :
    INDEX_LOG[i].EndTime.some
    => /\ INDEX_LOG[i].TotalFiles =
            INDEX_LOG[i].SuccessCount + INDEX_LOG[i].FailedCount + INDEX_LOG[i].SkippedCount
       /\ INDEX_LOG[i].TypeStats.some
       /\ SumCounts(INDEX_LOG[i].TypeStats.val.members) = INDEX_LOG[i].TotalFiles

\* a finished row that counts a skip next to another outcome
C7_Witness ==
  \E i \in {Len(INDEX_LOG)} \ {0} :
    /\ INDEX_LOG[i].EndTime.some
    /\ INDEX_LOG[i].SkippedCount >= 1
    /\ INDEX_LOG[i].SuccessCount + INDEX_LOG[i].FailedCount >= 1

\* C8: once a run has ended, in whatever way, no INDEX_LOG row is left with
\* a null EndTime.
C8_EveryRunFinalized ==
  Ended => \A i \in 1..Len(INDEX_LOG) : INDEX_LOG[i].EndTime.some

C10_ExactlyOneOutcome ==
  lastStep.file # 0 => Len(lastStep.outcomes) = 1

C12_MalformedResponseWritesNoRow ==
  \A r \in FILE : r.Description.some

C14_HiddenEntriesUntouched ==
  \A i \in Files :
    (lastStep.file = i /\ (StartsWithDot(FileAt(i).name) \/ FileAt(i).inDotDir))
    => lastStep.outcomes = <<>> /\ ~lastStep.analysed

\* C15: every row of the FILE table has an Embedding that is neither NULL
\* nor an empty vector and a Description other than the failure marker.
C15_RowsHaveEmbeddingAndDescription ==
  \A r \in FILE :
    /\ r.Embedding.some
    /\ r.Embedding.val.members # <<>>
    /\ r.Description # Some(FailureMarker)

\* a row was just written for an entry analysed with success
C15_Witness ==
  /\ pc = "walk" /\ lastStep.outcomes = <<"success">> /\ lastStep.saves = 1
  /\ \E r \in FILE : r.FileHash = LastHash /\ r.Embedding.some

C18_SuccessMeansStored ==
  [][(Processed /\ lastStep'.outcomes = <<"success">>)
     => /\ FileAt(idx).hash \in output'
        /\ CheckIfIndexed(FILE', FileAt(idx).hash)]_vars

\* C19: the embedding provider is asked only for an entry whose text
\* analysis gave a metadata object other than the sentinel.
C19_EmbeddingOnlyAfterValidAnalysis ==
  (\E i \in 1..Len(lastStep.calls) : lastStep.calls[i] = "embed") => lastStep.metaOK

C17_FencedParsesAsPlain ==
  (IsJsonObjectText(parse.J) /\ parse.plain.some /\ parse.fenced.some /\ parse.tagged.some)
  => parse.plain = parse.fenced /\ parse.fenced = parse.tagged

\* the requests analyze_content made on its input
StepACalls == {stepA.calls[i] : i \in 1..Len(stepA.calls)}

TypeTag(i) ==
  LET ext == Lower(SplitExt(FileAt(i).name)[2])
  IN IF ext = <<>> THEN <<>> ELSE Tail(ext)

\* C22: every key of the histogram of the session is the type tag of an
\* entry of the tree, so that an entry is counted under its tag whichever
\* outcome it gets.
C22_OneKeyPerType ==
  \A k \in 1..Len(session.type_stats) :
    \E i \in Files : session.type_stats[k][1] = TypeTag(i)

\* C23: no step removes the row of a hash from the FILE table.
C23_IndexedHashesNeverShrink ==
  [][Hashes(FILE) \subseteq Hashes(FILE')]_vars

\* C24: every file of the output directory is named by a hash that has a
\* row in the FILE table.
C24_NoOrphanedBlobs ==
  output \subseteq Hashes(FILE)

\* C25: the pass that records a fail outcome for an entry leaves the FILE
\* table, the output directory and the input tree as they were, the row
\* a force run finds for the hash included.
C25_FailLeavesFilesUnchanged ==
  [][(Processed /\ lastStep'.outcomes = <<"fail">>)
     => /\ FILE' = FILE
        /\ output' = output
        /\ inputTree' = inputTree
        /\ lastStep'.saves = 0]_vars

\* a force run failed on an entry whose hash has a row and a blob
C25_Witness ==
  /\ pc = "walk" /\ args.force
  /\ lastStep.outcomes = <<"fail">> /\ lastStep.analysed
  /\ LastHash \in Hashes(FILE) /\ LastHash \in output

====
